---- MODULE Spec2Model ----
(***************************************************************************)
(* Timeline layout engine of koekoek: the event normaliser                 *)
(* (timeline_core.py), the horizontal packing layout                       *)
(* (timeline_horizontal.py) and the vertical, entity-filterable layout     *)
(* (timeline_vertical.py: the Python generator and the script it embeds).  *)
(*                                                                         *)
(* Instants are integers.  All rows of a table carry the same date, so an  *)
(* instant is the clock time of the row, 0..MaxClock, and one day is       *)
(* DayLen clock units; a row without a parseable date has no instant.      *)
(***************************************************************************)
EXTENDS Integers, Sequences, FiniteSets, TLC

\* ------------------------------------------------------------------ bounds
MaxRows == 3
MaxClock == 2
LaneClock == 1
MaxDesc == 20
PadRows == 9
MaxTail == 2
MaxText == 3

\* ------------------------------------------------------- program constants
gap == 24
base_width_const == 140
per_char_width == 5
min_width == 180
max_width == 320
rowH == 98
rowGap == 12
gapX == 20
wrapColW == 240
headerH == 34
itemH == 76
itemGap == 10
padH == 20
date_label_len == 10
time_label_len == 5
range_label_len == 13
unknown_time_len == 14

\* --------------------------------------------------------------- the input
None == 0 - 1
NaN == 0 - 2
Clock == 0..MaxClock
DayLen == MaxClock + 1
Entities == {"a", "A", "b"}
EntityFields == {<<"a">>, <<"b">>, <<"a", "b">>}
CaseFields == {<<"a">>, <<"A">>, <<"b">>}
DupFields == {<<"a">>, <<"a", "a">>}
DescLens == {0}

\* One spreadsheet row: whether Datum parses, Starttijd, Eindtijd (NaN when the
\* cell is empty), the split entity field and the length of Gebeurtenis.
\* A row whose date does not parse is represented once.
Rows(starts, ends, fields) ==
  {r \in [date : BOOLEAN, st : starts, et : ends \cup {NaN},
          ents : fields, dlen : DescLens] :
     ~r.date => (r.st = 0 /\ r.et = NaN)}

RECURSIVE SeqsUpTo(_, _)
SeqsUpTo(S, n) ==
  IF n = 0 THEN {<<>>}
  ELSE LET shorter == SeqsUpTo(S, n - 1)
       IN shorter \cup {Append(s, x) : s \in {t \in shorter : Len(t) = n - 1}, x \in S}

\* The tables explored: every combination of clock times in one entity lane,
\* every entity field over the clock times up to LaneClock (Eindtijd empty
\* or LaneClock), names that differ in letter case only at one instant, and
\* entity fields that name one entity twice, and descriptions of MaxDesc
\* characters.
OneLaneRows == Rows(Clock, Clock, {<<"a">>})
ManyLaneRows == Rows(0..LaneClock, {LaneClock}, EntityFields)
CaseRows == Rows({0}, {}, CaseFields)
DupRows ==
  [date : {TRUE}, st : 0..LaneClock, et : {LaneClock, NaN}, ents : DupFields,
   dlen : DescLens]
LongRows ==
  [date : {TRUE}, st : 0..LaneClock, et : {LaneClock, NaN}, ents : {<<"a">>},
   dlen : {0, MaxDesc}]

\* The strings handed to escapeHtml.
Chars == {"&", "<", ">", "\"", "x"}
Texts == SeqsUpTo(Chars, MaxText)

\* Longer tables, so that row ordinals of two digits occur: up to PadRows rows
\* without a date, then up to MaxTail rows with one start.
PadRow == [date |-> FALSE, st |-> 0, et |-> NaN, ents |-> <<"a">>, dlen |-> 0]
TailRows ==
  [date : {TRUE}, st : {0}, et : {LaneClock, NaN}, ents : {<<"a">>}, dlen : DescLens]
LongTables ==
  [missing : BOOLEAN,
   rows : {[i \in 1..n |-> PadRow] \o tail :
             n \in 0..PadRows, tail \in SeqsUpTo(TailRows, MaxTail)}]

Tables ==
  [missing : BOOLEAN,
   rows : SeqsUpTo(OneLaneRows, MaxRows) \cup SeqsUpTo(ManyLaneRows, MaxRows)
            \cup SeqsUpTo(CaseRows, MaxRows) \cup SeqsUpTo(DupRows, MaxRows)
            \cup SeqsUpTo(LongRows, MaxRows)]

\* ------------------------------------------------------------ data helpers
Max(a, b) == IF a >= b THEN a ELSE b
Min(a, b) == IF a <= b THEN a ELSE b

SeqRange(s) == {s[i] : i \in 1..Len(s)}

\* Python's sorted()/list.sort() and JavaScript's Array.prototype.sort are
\* stable: elements the order does not separate keep their input order.
Sorted(s, Less(_, _)) ==
  LET n == Len(s)
      pos(i) == 1 + Cardinality({j \in 1..n :
                     Less(s[j], s[i]) \/ (~Less(s[i], s[j]) /\ j < i)})
  IN [p \in 1..n |-> s[CHOOSE i \in 1..n : pos(i) = p]]

\* Tuple comparison of Python, on keys of three integers.
TupleLess(k, l) ==
  \/ k[1] < l[1]
  \/ k[1] = l[1] /\ k[2] < l[2]
  \/ k[1] = l[1] /\ k[2] = l[2] /\ k[3] < l[3]

BoolInt(b) == IF b THEN 1 ELSE 0

\* --------------------------------------------------------- timeline_core.py
parse_date_time(date, t) ==
  IF ~date THEN None ELSE IF t = NaN THEN 0 ELSE t

normalize_end_dt(start_dt, end_dt) ==
  IF start_dt = None \/ end_dt = None THEN end_dt
  ELSE IF end_dt < start_dt THEN end_dt + DayLen
  ELSE end_dt

\* Length of format_time_label's result: "HH:MM" or "HH:MM - HH:MM".
format_time_label(start_dt, end_dt) ==
  IF start_dt = None THEN unknown_time_len
  ELSE IF end_dt = None \/ end_dt = start_dt THEN time_label_len
  ELSE range_label_len

split_entities(value) == IF value = <<>> THEN <<"Onbekend">> ELSE value

is_range(event) ==
  event.start_dt # None /\ event.end_dt # None /\ event.end_dt # event.start_dt

\* A variant that lets intervals touch.
overlaps_open(a_start, a_end, b_start, b_end) ==
  a_start < b_end /\ b_start < a_end

overlaps(a_start, a_end, b_start, b_end) ==
  a_start <= b_end /\ b_start <= a_end

\* datetime.max: later than every instant of the table.
datetime_max == 4 * DayLen

effective_end_dt(event) ==
  IF event.start_dt = None THEN datetime_max
  ELSE IF event.end_dt = None THEN event.start_dt
  ELSE event.end_dt

sort_key(event) ==
  <<BoolInt(event.start_dt = None),
    IF event.start_dt = None THEN datetime_max ELSE event.start_dt,
    BoolInt(~is_range(event)), event.event_id>>

sort_key_less(a, b) ==
  LET k == sort_key(a)
      l == sort_key(b)
  IN \/ k[1] < l[1]
     \/ k[1] = l[1] /\ TupleLess(<<k[2], k[3], k[4]>>, <<l[2], l[3], l[4]>>)

sorted_events(events) == Sorted(events, sort_key_less)

\* A variant of estimate_card_width without the upper limit.
estimate_card_width_no_max(text_len, is_range_event) ==
  LET base_width == base_width_const + text_len * per_char_width
      width == Max(min_width, base_width)
  IN IF ~is_range_event THEN width ELSE Max(width, min_width)

estimate_card_width(text_len, is_range_event) ==
  LET base_width == base_width_const + text_len * per_char_width
      width == Max(min_width, Min(base_width, max_width))
  IN IF ~is_range_event THEN width ELSE Max(width, min_width)

\* One event of a row; idx is the row's ordinal (0-based).
row_event(row, idx, normalise) ==
  LET start_dt == parse_date_time(row.date, row.st)
      parsed == IF row.et = NaN THEN None ELSE parse_date_time(row.date, row.et)
      end_dt == IF normalise THEN normalize_end_dt(start_dt, parsed) ELSE parsed
  IN [event_id |-> idx,
      dlen |-> row.dlen,
      entities |-> split_entities(row.ents),
      time_label |-> format_time_label(start_dt, end_dt),
      start_dt |-> start_dt,
      end_dt |-> IF start_dt # None /\ end_dt # None THEN end_dt ELSE None]

read_events_from_excel(rows) ==
  [i \in 1..Len(rows) |-> row_event(rows[i], i - 1, TRUE)]

\* Number of times ent occurs in the entity list of an event.
Occurrences(entities, ent) == Cardinality({k \in 1..Len(entities) : entities[k] = ent})

RECURSIVE Repeat(_, _)
Repeat(x, n) == IF n = 0 THEN <<>> ELSE <<x>> \o Repeat(x, n - 1)

RECURSIVE entity_list(_, _)
entity_list(events, ent) ==
  IF events = <<>> THEN <<>>
  ELSE Repeat(Head(events), Occurrences(Head(events).entities, ent))
         \o entity_list(Tail(events), ent)

group_events_by_entity(events) ==
  LET keys == UNION {SeqRange(events[i].entities) : i \in 1..Len(events)}
  IN [ent \in keys |-> entity_list(events, ent)]

\* The keys of that dict in insertion order: the order in which the names are
\* first met in the rows.
RECURSIVE first_seen(_, _)
first_seen(names, seen) ==
  IF names = <<>> THEN <<>>
  ELSE IF Head(names) \in seen THEN first_seen(Tail(names), seen)
       ELSE <<Head(names)>> \o first_seen(Tail(names), seen \cup {Head(names)})

RECURSIVE all_names(_)
all_names(events) ==
  IF events = <<>> THEN <<>> ELSE Head(events).entities \o all_names(Tail(events))

entity_keys(events) == first_seen(all_names(events), {})

\* Position of a name in the order of str.lower().
lower_rank(name) == CASE name \in {"a", "A"} -> 1 [] name \in {"b", "B"} -> 2 [] OTHER -> 3

name_less(a, b) == lower_rank(a) < lower_rank(b)

\* Position of a name in the order of str.casefold().
casefold_rank(name) == CASE name \in {"a", "A"} -> 1 [] name \in {"b", "B"} -> 2 [] OTHER -> 3

casefold_less(a, b) == casefold_rank(a) < casefold_rank(b)

\* int((24.0 + index * 137.508) % 360), in thousandths of a degree.
hue_of_index(index) == ((24000 + index * 137508) % 360000) \div 1000

\* The colour string "hsl(hue, sat%, light%)".
hsl(hue, sat, light) == [hue |-> hue, sat |-> sat, light |-> light]

build_entity_colors(entities) ==
  LET ordered == first_seen(Sorted(entities, casefold_less), {})
  IN [ent \in SeqRange(ordered) |->
        hsl(hue_of_index((CHOOSE k \in 1..Len(ordered) : ordered[k] = ent) - 1), 60, 68)]

\* ------------------------------------------------- timeline_horizontal.py
\* Key of the global slot order: (start_dt, end_dt is None, event_id).
slot_key(e) == <<e.start_dt, BoolInt(e.end_dt = None), e.event_id>>

\* A variant whose key has no event_id.
slot_key_less_no_id(a, b) ==
  TupleLess(<<slot_key(a)[1], slot_key(a)[2], 0>>, <<slot_key(b)[1], slot_key(b)[2], 0>>)

slot_key_less(a, b) == TupleLess(slot_key(a), slot_key(b))

HasStart(e) == e.start_dt # None

\* A variant that keeps the events without a start.
timed_events_unfiltered(evs) == Sorted(evs, slot_key_less)

timed_events_of(evs) == Sorted(SelectSeq(evs, HasStart), slot_key_less)

\* slot_of[event_id] = s, slots counted from 0; event_at_slot[s + 1] is its event.
slot_of_events(event_at_slot) ==
  [id \in {event_at_slot[i].event_id : i \in 1..Len(event_at_slot)} |->
     (CHOOSE i \in 1..Len(event_at_slot) : event_at_slot[i].event_id = id) - 1]

card_text_len(e) == date_label_len + 1 + e.time_label + 1 + e.dlen

slot_width_of(event_at_slot) ==
  [s \in 0..(Len(event_at_slot) - 1) |->
     estimate_card_width(card_text_len(event_at_slot[s + 1]), is_range(event_at_slot[s + 1]))]

\* A variant of x_start_of that leaves no gap between the slots.
x_start_of_no_gap(widths) ==
  LET n == Cardinality(DOMAIN widths)
      xs[i \in 0..(n - 1)] == IF i = 0 THEN 0 ELSE xs[i - 1] + widths[i - 1]
  IN xs

x_start_of(widths) ==
  LET n == Cardinality(DOMAIN widths)
      xs[i \in 0..(n - 1)] == IF i = 0 THEN 0 ELSE xs[i - 1] + widths[i - 1] + gap
  IN xs

SetMax(S) == CHOOSE m \in S : \A k \in S : k <= m

SetMin(S) == CHOOSE m \in S : \A k \in S : m <= k

\* A variant that leaves out an event starting exactly at the end of the range.
range_max_slot_open_end(event_at_slot, slots) ==
  LET n == Len(event_at_slot)
      ranged == {i \in 1..n : is_range(event_at_slot[i])}
      rng(id) == event_at_slot[CHOOSE i \in ranged : event_at_slot[i].event_id = id]
  IN [id \in {event_at_slot[i].event_id : i \in ranged} |->
        SetMax({slots[id]} \cup
               {slots[event_at_slot[j].event_id] : j \in
                  {k \in 1..n : /\ event_at_slot[k].start_dt # None
                                /\ rng(id).start_dt <= event_at_slot[k].start_dt
                                /\ event_at_slot[k].start_dt < rng(id).end_dt}})]

range_max_slot_of(event_at_slot, slots) ==
  LET n == Len(event_at_slot)
      ranged == {i \in 1..n : is_range(event_at_slot[i])}
      rng(id) == event_at_slot[CHOOSE i \in ranged : event_at_slot[i].event_id = id]
  IN [id \in {event_at_slot[i].event_id : i \in ranged} |->
        SetMax({slots[id]} \cup
               {slots[event_at_slot[j].event_id] : j \in
                  {k \in 1..n : /\ event_at_slot[k].start_dt # None
                                /\ rng(id).start_dt <= event_at_slot[k].start_dt
                                /\ event_at_slot[k].start_dt <= rng(id).end_dt}})]

event_x_of(event_at_slot, slots, xs) ==
  [id \in DOMAIN slots |-> xs[slots[id]]]

event_w_of(event_at_slot, slots, widths, xs, max_slots) ==
  [id \in DOMAIN slots |->
     LET s == slots[id]
         e == event_at_slot[s + 1]
         w == widths[s]
     IN IF is_range(e)
        THEN LET last_slot == max_slots[id]
                 right_edge == xs[last_slot] + widths[last_slot]
             IN Max(w, right_edge - xs[s])
        ELSE w]

make_card(event, ex, ew) ==
  [event |-> event,
   x |-> ex[event.event_id],
   width |-> ew[event.event_id],
   is_range |-> is_range(event),
   end_dt |-> IF event.end_dt # None THEN event.end_dt ELSE event.start_dt]

\* A variant of subrow_accepts that takes an event starting at the very end of
\* the last card.
subrow_accepts_touching(subrow, event) ==
  LET last == subrow[Len(subrow)]
      last_end == IF last.end_dt # None THEN last.end_dt ELSE last.event.start_dt
  IN ~(Len(subrow) > 0 /\ event.start_dt < last_end)

\* The test of lines 103-112: the subrow takes the event unless its last card
\* overlaps it in time.
subrow_accepts(subrow, event) ==
  LET last == subrow[Len(subrow)]
      last_start == last.event.start_dt
      last_end == IF last.end_dt # None THEN last.end_dt ELSE last_start
      this_start == event.start_dt
      this_end == IF event.end_dt # None THEN event.end_dt ELSE event.start_dt
  IN ~(/\ Len(subrow) > 0
       /\ overlaps(this_start, this_end, last_start, last_end))

\* A variant of place_event that packs a card right after the last card of the
\* subrow it joins.
place_event_lane_x(subrows, event, ex, ew) ==
  LET open == {i \in 1..Len(subrows) : subrow_accepts(subrows[i], event)}
  IN IF open # {}
     THEN LET first == CHOOSE i \in open : \A k \in open : i <= k
              last == subrows[first][Len(subrows[first])]
          IN [subrows EXCEPT ![first] =
                Append(@, [make_card(event, ex, ew) EXCEPT !.x = last.x + last.width + gap])]
     ELSE Append(subrows, <<make_card(event, ex, ew)>>)

\* A variant of place_event that takes the last subrow that accepts the event.
place_event_last_fit(subrows, event, ex, ew) ==
  LET open == {i \in 1..Len(subrows) : subrow_accepts(subrows[i], event)}
  IN IF open # {}
     THEN LET last == CHOOSE i \in open : \A k \in open : i >= k
          IN [subrows EXCEPT ![last] = Append(@, make_card(event, ex, ew))]
     ELSE Append(subrows, <<make_card(event, ex, ew)>>)

place_event(subrows, event, ex, ew) ==
  LET open == {i \in 1..Len(subrows) : subrow_accepts(subrows[i], event)}
  IN IF open # {}
     THEN LET first == CHOOSE i \in open : \A k \in open : i <= k
          IN [subrows EXCEPT ![first] = Append(@, make_card(event, ex, ew))]
     ELSE Append(subrows, <<make_card(event, ex, ew)>>)

RECURSIVE place_events(_, _, _, _)
place_events(subrows, evs, ex, ew) ==
  IF evs = <<>> THEN subrows
  ELSE IF Head(evs).start_dt = None
       THEN place_events(subrows, Tail(evs), ex, ew)
       ELSE place_events(place_event(subrows, Head(evs), ex, ew), Tail(evs), ex, ew)

card_x_less(a, b) == a.x < b.x

entity_subrows(lane_events, ex, ew) ==
  LET subrows == place_events(<<>>, sorted_events(lane_events), ex, ew)
  IN [i \in 1..Len(subrows) |-> Sorted(subrows[i], card_x_less)]

layout_of(groups, ex, ew) ==
  [entity \in DOMAIN groups |-> entity_subrows(groups[entity], ex, ew)]

\* Lines 146-147: the colour of every entity lane.
entity_colors_of(evs) ==
  build_entity_colors(Sorted(entity_keys(evs), name_less))

\* Lines 24-143 as one function of the event list.
horizontal_geometry(evs) ==
  LET timed == timed_events_of(evs)
      slots == slot_of_events(timed)
      widths == slot_width_of(timed)
      xs == x_start_of(widths)
      ex == event_x_of(timed, slots, xs)
      ew == event_w_of(timed, slots, widths, xs, range_max_slot_of(timed, slots))
  IN [slot_of |-> slots, event_x |-> ex, event_w |-> ew,
      layout |-> layout_of(group_events_by_entity(evs), ex, ew)]

\* --------------------------------------------------- timeline_vertical.py
\* The generator's own row parsing (lines 126-143): no normalize_end_dt.
base_events_of(rows) ==
  [i \in 1..Len(rows) |-> row_event(rows[i], i - 1, FALSE)]

\* str(event_id): the decimal digits, most significant first.
RECURSIVE IdStr(_)
IdStr(n) == IF n < 10 THEN <<n>> ELSE Append(IdStr(n \div 10), n % 10)

\* pd.Timestamp(dt).value // 1_000_000: milliseconds; one clock unit is a minute.
to_ms(dt) == dt * 60 * 1000

\* ord(ch) of the characters of a name.
ords_of(name) ==
  CASE name = "a" -> <<97>> [] name = "A" -> <<65>> [] name = "b" -> <<98>>
    [] OTHER -> <<63>>

\* _entity_color: a hash of the characters, modulo 360, as the hue.
RECURSIVE hash_hue(_, _)
hash_hue(ords, h) ==
  IF ords = <<>> THEN h ELSE hash_hue(Tail(ords), (h * 31 + Head(ords)) % 360)

_entity_color(entity) == hsl(hash_hue(ords_of(entity), 0), 55, 72)

payload_event(e) ==
  [id |-> IdStr(e.event_id),
   entities |-> e.entities,
   colors |-> [ent \in SeqRange(e.entities) |-> _entity_color(ent)],
   start_ms |-> to_ms(e.start_dt),
   end_ms |-> IF e.end_dt # None THEN to_ms(e.end_dt) ELSE to_ms(e.start_dt),
   is_range |-> is_range(e)]

RECURSIVE events_payload_of(_)
events_payload_of(base) ==
  IF base = <<>> THEN <<>>
  ELSE IF Head(base).start_dt = None THEN events_payload_of(Tail(base))
       ELSE <<payload_event(Head(base))>> \o events_payload_of(Tail(base))

RECURSIVE SetToSeq(_)
SetToSeq(S) == IF S = {} THEN <<>> ELSE LET x == CHOOSE x \in S : TRUE
                                        IN <<x>> \o SetToSeq(S \ {x})

\* all_entities is a set of str: the order in which sorted() iterates over it
\* depends on the hash seed of the run, so every order can occur.
all_entities_of(base) ==
  LET timed == SelectSeq(base, HasStart)
  IN UNION {SeqRange(timed[i].entities) : i \in 1..Len(timed)}

set_orders(S) ==
  {f \in [1..Cardinality(S) -> S] : \A x \in S : \E k \in 1..Cardinality(S) : f[k] = x}

\* The payload, for one iteration order of all_entities.
payload_of(base, iteration) ==
  LET entities_sorted == Sorted(iteration, name_less)
  IN [entities |-> [k \in 1..Len(entities_sorted) |->
                      [name |-> entities_sorted[k],
                       color |-> _entity_color(entities_sorted[k])]],
      events |-> events_payload_of(base)]

\* ------------------------------------- the script embedded in the document
maxSubcols == 4
subcolW == 340
total_pad == 40
empty_height == 400
Undefined == 0 - 1

\* String.prototype.localeCompare on strings of decimal digits.
RECURSIVE localeCompare(_, _)
localeCompare(a, b) ==
  IF a = <<>> /\ b = <<>> THEN 0
  ELSE IF a = <<>> THEN -1
  ELSE IF b = <<>> THEN 1
  ELSE IF Head(a) < Head(b) THEN -1
  ELSE IF Head(a) > Head(b) THEN 1
  ELSE localeCompare(Tail(a), Tail(b))

\* Comparator of lines 447-453.
evs_less(a, b) ==
  IF a.start_ms # b.start_ms THEN a.start_ms < b.start_ms
  ELSE IF a.is_range # b.is_range THEN a.is_range
  ELSE localeCompare(a.id, b.id) < 0

num_less(a, b) == a < b

id_less(a, b) == localeCompare(a.id, b.id) < 0

\* Comparator of lines 484-487.
ranges_less(a, b) ==
  IF a.start_ms # b.start_ms THEN a.start_ms < b.start_ms
  ELSE a.end_ms < b.end_ms

IsRangeEv(e) == e.is_range

\* Lines 455-463: the distinct starts in ascending order.
\* A variant of unique_starts_of that keeps every start, repeated ones too.
unique_starts_repeated(evs) ==
  Sorted([i \in 1..Len(evs) |-> evs[i].start_ms], num_less)

unique_starts_of(evs) ==
  Sorted(SetToSeq({evs[i].start_ms : i \in 1..Len(evs)}), num_less)

\* Lines 464: start_ms -> slot, slots counted from 0.
slot_of_start(uniqueStarts) ==
  [st \in SeqRange(uniqueStarts) |->
     (CHOOSE i \in 1..Len(uniqueStarts) : uniqueStarts[i] = st) - 1]

\* Line 467: e._slot for every event of evs; the other events keep their marks.
assign_slots(evs, slotOfId, marks) ==
  [id \in DOMAIN marks |->
     IF \E i \in 1..Len(evs) : evs[i].id = id
     THEN LET e == evs[CHOOSE i \in 1..Len(evs) : evs[i].id = id]
          IN [marks[id] EXCEPT !.slot = slotOfId[e.start_ms]]
     ELSE marks[id]]

\* Lines 473-481: r._maxSlot for every range.
max_slot_of(r, evs, marks) ==
  SetMax({marks[r.id].slot} \cup
         {marks[evs[i].id].slot : i \in
            {k \in 1..Len(evs) : /\ evs[k].start_ms >= r.start_ms
                                 /\ evs[k].start_ms <= r.end_ms}})

assign_max_slots(ranges, evs, marks) ==
  [id \in DOMAIN marks |->
     IF \E i \in 1..Len(ranges) : ranges[i].id = id
     THEN LET r == ranges[CHOOSE i \in 1..Len(ranges) : ranges[i].id = id]
          IN [marks[id] EXCEPT !.maxSlot = max_slot_of(r, evs, marks)]
     ELSE marks[id]]

\* A variant that keeps the _wrapCol an earlier layout left on a range.
RECURSIVE assign_wrap_cols_keep(_, _, _)
assign_wrap_cols_keep(rangesSorted, colEnd, marks) ==
  IF rangesSorted = <<>> THEN [colEnd |-> colEnd, marks |-> marks]
  ELSE LET r == Head(rangesSorted)
           free == {i \in 1..Len(colEnd) : r.start_ms > colEnd[i]}
           col == IF free = {} THEN Len(colEnd) + 1
                  ELSE CHOOSE i \in free : \A k \in free : i <= k
           colEnd2 == IF free = {} THEN Append(colEnd, r.end_ms)
                      ELSE [colEnd EXCEPT ![col] = Max(@, r.end_ms)]
       IN assign_wrap_cols_keep(Tail(rangesSorted), colEnd2,
            [marks EXCEPT ![r.id].wrapCol = IF @ = Undefined THEN col - 1 ELSE @])

\* Lines 489-502: greedy colouring; the result is colEnd and the marks.
RECURSIVE assign_wrap_cols(_, _, _)
assign_wrap_cols(rangesSorted, colEnd, marks) ==
  IF rangesSorted = <<>> THEN [colEnd |-> colEnd, marks |-> marks]
  ELSE LET r == Head(rangesSorted)
           free == {i \in 1..Len(colEnd) : r.start_ms > colEnd[i]}
           col == IF free = {} THEN Len(colEnd) + 1
                  ELSE CHOOSE i \in free : \A k \in free : i <= k
           colEnd2 == IF free = {} THEN Append(colEnd, r.end_ms)
                      ELSE [colEnd EXCEPT ![col] = Max(@, r.end_ms)]
       IN assign_wrap_cols(Tail(rangesSorted), colEnd2,
                           [marks EXCEPT ![r.id].wrapCol = col - 1])

\* Lines 507-516: the non-range events of one start, ordered by id.
normal_by_start(evs, st) ==
  LET SameStartNormal(e) == ~e.is_range /\ e.start_ms = st
  IN Sorted(SelectSeq(evs, SameStartNormal), id_less)

\* A variant of slot_heights with a gap after every item of a stack.
slot_heights_gap_each(evs, slotStarts) ==
  [i \in 0..(Len(slotStarts) - 1) |->
     LET n == Len(normal_by_start(evs, slotStarts[i + 1]))
     IN IF n > 0
        THEN Max(rowH, headerH + padH + (n * itemH) + (n * itemGap))
        ELSE rowH]

\* Lines 524-534.
slot_heights(evs, slotStarts) ==
  [i \in 0..(Len(slotStarts) - 1) |->
     LET n == Len(normal_by_start(evs, slotStarts[i + 1]))
     IN IF n > 0
        THEN Max(rowH, headerH + padH + (n * itemH) + ((n - 1) * itemGap))
        ELSE rowH]

\* A variant of y_start_of that leaves no gap between the rows.
y_start_of_no_gap(slotH) ==
  LET n == Cardinality(DOMAIN slotH)
      ys[i \in 0..(n - 1)] == IF i = 0 THEN 0 ELSE ys[i - 1] + slotH[i - 1]
  IN ys

\* Lines 537-544.
y_start_of(slotH) ==
  LET n == Cardinality(DOMAIN slotH)
      ys[i \in 0..(n - 1)] == IF i = 0 THEN 0 ELSE ys[i - 1] + slotH[i - 1] + rowGap
  IN ys

y_end_of(slotH) ==
  [i \in DOMAIN slotH |-> y_start_of(slotH)[i] + slotH[i]]

\* Lines 560-568: the geometry of one range wrapper.
range_box(r, marks, yStart, yEnd) ==
  LET y0 == yStart[marks[r.id].slot]
      y1 == yEnd[marks[r.id].maxSlot]
      col == IF marks[r.id].wrapCol = Undefined THEN 0 ELSE marks[r.id].wrapCol
  IN [kind |-> "range", ev |-> r.id, start_ms |-> r.start_ms, items |-> <<>>,
      x |-> col * (wrapColW + gapX), y |-> y0, w |-> wrapColW,
      h |-> Max(rowH, y1 - y0)]

\* Lines 572-581: the stacked card of one slot.
stack_box(evs, st, slot, wrapArea, yStart, slotH) ==
  LET arr == normal_by_start(evs, st)
  IN [kind |-> "stack", ev |-> <<>>, start_ms |-> st,
      items |-> [i \in 1..Len(arr) |-> arr[i].id],
      x |-> wrapArea + gapX, y |-> yStart[slot],
      w |-> (subcolW * maxSubcols) + (gapX * (maxSubcols - 1)),
      h |-> slotH[slot]]

RECURSIVE stack_boxes(_, _, _, _, _, _)
stack_boxes(evs, slotStarts, i, wrapArea, yStart, slotH) ==
  IF i > Len(slotStarts) THEN <<>>
  ELSE (IF normal_by_start(evs, slotStarts[i]) = <<>> THEN <<>>
        ELSE <<stack_box(evs, slotStarts[i], i - 1, wrapArea, yStart, slotH)>>)
       \o stack_boxes(evs, slotStarts, i + 1, wrapArea, yStart, slotH)

\* function layout(events), lines 445-590.  The events are objects shared with
\* data.events: the _slot, _maxSlot and _wrapCol it sets stay on them (marks).
js_layout(filtered, marks) ==
  LET evs == Sorted(filtered, evs_less)
      uniqueStarts == unique_starts_of(evs)
      slotOfId == slot_of_start(uniqueStarts)
      marks1 == assign_slots(evs, slotOfId, marks)
      ranges == SelectSeq(evs, IsRangeEv)
      marks2 == assign_max_slots(ranges, evs, marks1)
      coloured == assign_wrap_cols(Sorted(ranges, ranges_less), <<>>, marks2)
      marks3 == coloured.marks
      wrapCols == Max(1, Len(coloured.colEnd))
      wrapArea == wrapCols * wrapColW + (wrapCols - 1) * gapX
      slotH == slot_heights(evs, uniqueStarts)
      yStart == y_start_of(slotH)
      yEnd == y_end_of(slotH)
  IN [positioned |->
        [i \in 1..Len(ranges) |-> range_box(ranges[i], marks3, yStart, yEnd)]
        \o stack_boxes(evs, uniqueStarts, 1, wrapArea, yStart, slotH),
      totalH |-> IF Len(uniqueStarts) > 0 THEN yEnd[Len(uniqueStarts) - 1] + total_pad
                 ELSE empty_height,
      wrapArea |-> wrapArea,
      colEnd |-> coloured.colEnd,
      yStart |-> yStart,
      yEnd |-> yEnd,
      marks |-> marks3]

\* function escapeHtml, lines 433-435.  A string is a sequence of characters;
\* the result is a sequence of characters and inserted entities.
Specials == {"&", "<", ">", "\""}

\* Length of the run of special characters s starts with: one match of the
\* pattern /[&<>"]+/.
RECURSIVE match_len(_)
match_len(s) ==
  IF s = <<>> \/ Head(s) \notin Specials THEN 0 ELSE 1 + match_len(Tail(s))

\* The replacer: the table entry of the whole match m, or m itself.
replacer(m) ==
  IF m = <<"&">> THEN <<"&amp;">>
  ELSE IF m = <<"<">> THEN <<"&lt;">>
  ELSE IF m = <<">">> THEN <<"&gt;">>
  ELSE IF m = <<"\"">> THEN <<"&quot;">>
  ELSE m

RECURSIVE escapeHtml(_)
escapeHtml(s) ==
  IF s = <<>> THEN <<>>
  ELSE IF match_len(s) = 0 THEN <<Head(s)>> \o escapeHtml(Tail(s))
  ELSE replacer(SubSeq(s, 1, match_len(s)))
         \o escapeHtml(SubSeq(s, match_len(s) + 1, Len(s)))

\* Line 594-596: the events with at least one selected entity.
filtered_events(data_events, sel) ==
  LET Shown(e) == \E k \in 1..Len(e.entities) : e.entities[k] \in sel
  IN SelectSeq(data_events, Shown)

\* ------------------------------------------------------------------- state
VARIABLES
  table,           \* the spreadsheet: is a required column missing, and the rows
  command,         \* the subcommand timeline_cli.main dispatches on
  hpc,             \* position inside generate_horizontal_timeline
  events,          \* its events (read_events_from_excel)
  entity_events,   \* group_events_by_entity(events)
  event_at_slot,   \* timed events in global slot order
  slot_of,         \* event_id -> slot
  slot_width,      \* slot -> estimated width
  x_start,         \* slot -> packed x
  range_max_slot,  \* event_id of a range -> its span slot
  event_x,         \* event_id -> x
  event_w,         \* event_id -> final width
  layout,          \* entity -> subrows of cards
  entity_colors,   \* entity -> colour
  hfile,           \* the horizontal output document (its layout), once written
  vpc,             \* position inside generate_vertical_timeline
  base_events,     \* its events
  payload,         \* the entities and events embedded in the document
  vfile,           \* the vertical output document (its payload), once written
  cfile,           \* the combined output document, once written
  page,            \* is the vertical document open in a browser
  selected,        \* the script's set of selected entity names
  marks,           \* id -> the _slot, _maxSlot, _wrapCol left on the event object
  shown,           \* what the last render() put on the timeline
  text,            \* a string handed to escapeHtml
  html             \* whether escapeHtml was called, and its result

hvars == <<hpc, events, entity_events, event_at_slot, slot_of, slot_width, x_start,
           range_max_slot, event_x, event_w, layout, entity_colors, hfile>>

vvars == <<vpc, base_events, payload, vfile>>

bvars == <<page, selected, marks, shown>>

evars == <<text, html>>

vars == <<table, command, hvars, vvars, cfile, bvars, evars>>

Unset == <<>>

NotCalled == [called |-> FALSE, out |-> <<>>]

Init ==
  /\ table \in Tables
  /\ command = "none"
  /\ hpc = "idle"
  /\ events = Unset
  /\ entity_events = Unset
  /\ event_at_slot = Unset
  /\ slot_of = Unset
  /\ slot_width = Unset
  /\ x_start = Unset
  /\ range_max_slot = Unset
  /\ event_x = Unset
  /\ event_w = Unset
  /\ layout = Unset
  /\ entity_colors = Unset
  /\ hfile = Unset
  /\ vpc = "idle"
  /\ base_events = Unset
  /\ payload = Unset
  /\ vfile = Unset
  /\ cfile = Unset
  /\ page = "closed"
  /\ selected = {}
  /\ marks = Unset
  /\ shown = Unset
  /\ text = <<>>
  /\ html = NotCalled

\* timeline_cli.main: dispatch on the subcommand.
Main(c) ==
  /\ command = "none"
  /\ command' = c
  /\ hpc' = IF c \in {"horizontal", "combined"} THEN "read" ELSE hpc
  /\ vpc' = IF c = "vertical" THEN "read" ELSE vpc
  /\ UNCHANGED evars
  /\ UNCHANGED <<table, events, entity_events, event_at_slot, slot_of, slot_width,
                 x_start, range_max_slot, event_x, event_w, layout, entity_colors,
                 hfile, base_events, payload, vfile, cfile, bvars>>

\* A variant of HRead that turns the rows into events before it looks at the
\* columns.
HReadLateCheck ==
  /\ hpc = "read"
  /\ events' = read_events_from_excel(table.rows)
  /\ IF table.missing
     THEN /\ hpc' = "config_error"
          /\ UNCHANGED entity_events
     ELSE /\ hpc' = "slots"
          /\ entity_events' = group_events_by_entity(read_events_from_excel(table.rows))
  /\ UNCHANGED evars
  /\ UNCHANGED <<table, command, event_at_slot, slot_of, slot_width, x_start,
                 range_max_slot, event_x, event_w, layout, entity_colors, hfile,
                 vvars, cfile, bvars>>

\* generate_horizontal_timeline, lines 23-24: read the table or raise the
\* configuration error.
HRead ==
  /\ hpc = "read"
  /\ IF table.missing
     THEN /\ hpc' = "config_error"
          /\ UNCHANGED <<events, entity_events>>
     ELSE /\ hpc' = "slots"
          /\ events' = read_events_from_excel(table.rows)
          /\ entity_events' = group_events_by_entity(read_events_from_excel(table.rows))
  /\ UNCHANGED evars
  /\ UNCHANGED <<table, command, event_at_slot, slot_of, slot_width, x_start,
                 range_max_slot, event_x, event_w, layout, entity_colors, hfile,
                 vvars, cfile, bvars>>

\* A variant of HSlots that goes on with no timed event.
HSlotsNoRaise ==
  /\ hpc = "slots"
  /\ hpc' = "pack"
  /\ event_at_slot' = timed_events_of(events)
  /\ slot_of' = slot_of_events(timed_events_of(events))
  /\ UNCHANGED evars
  /\ UNCHANGED <<table, command, events, entity_events, slot_width, x_start,
                 range_max_slot, event_x, event_w, layout, entity_colors, hfile,
                 vvars, cfile, bvars>>

\* Lines 28-39: the timed events in slot order, or the empty-result error.
HSlots ==
  /\ hpc = "slots"
  /\ IF timed_events_of(events) = <<>>
     THEN /\ hpc' = "empty_error"
          /\ UNCHANGED <<event_at_slot, slot_of>>
     ELSE /\ hpc' = "pack"
          /\ event_at_slot' = timed_events_of(events)
          /\ slot_of' = slot_of_events(timed_events_of(events))
  /\ UNCHANGED evars
  /\ UNCHANGED <<table, command, events, entity_events, slot_width, x_start,
                 range_max_slot, event_x, event_w, layout, entity_colors, hfile,
                 vvars, cfile, bvars>>

\* Lines 41-80: widths, packed x, span slots, final x and width.
HPack ==
  /\ hpc = "pack"
  /\ hpc' = "lanes"
  /\ slot_width' = slot_width_of(event_at_slot)
  /\ x_start' = x_start_of(slot_width')
  /\ range_max_slot' = range_max_slot_of(event_at_slot, slot_of)
  /\ event_x' = event_x_of(event_at_slot, slot_of, x_start')
  /\ event_w' = event_w_of(event_at_slot, slot_of, slot_width', x_start', range_max_slot')
  /\ UNCHANGED evars
  /\ UNCHANGED <<table, command, events, entity_events, event_at_slot, slot_of,
                 layout, entity_colors, hfile, vvars, cfile, bvars>>

\* Lines 85-147: the subrows and the colour of every entity lane.
HLanes ==
  /\ hpc = "lanes"
  /\ hpc' = "write"
  /\ layout' = layout_of(entity_events, event_x, event_w)
  /\ entity_colors' = entity_colors_of(events)
  /\ UNCHANGED evars
  /\ UNCHANGED <<table, command, events, entity_events, event_at_slot, slot_of,
                 slot_width, x_start, range_max_slot, event_x, event_w, hfile,
                 vvars, cfile, bvars>>

\* Lines 149-672: the document is written.
HWrite ==
  /\ hpc = "write"
  /\ hpc' = "done"
  /\ hfile' = layout
  /\ UNCHANGED evars
  /\ UNCHANGED <<table, command, events, entity_events, event_at_slot, slot_of,
                 slot_width, x_start, range_max_slot, event_x, event_w, layout,
                 entity_colors, vvars, cfile, bvars>>

\* generate_vertical_timeline, lines 109-143: read the table or raise the
\* configuration error.
VRead ==
  /\ vpc = "read"
  /\ IF table.missing
     THEN /\ vpc' = "config_error"
          /\ UNCHANGED base_events
     ELSE /\ vpc' = "payload"
          /\ base_events' = base_events_of(table.rows)
  /\ UNCHANGED evars
  /\ UNCHANGED <<table, command, hvars, payload, vfile, cfile, bvars>>

\* Lines 145-184: the payload of the timed events.
VPayload ==
  /\ vpc = "payload"
  /\ vpc' = "write"
  /\ \E iteration \in set_orders(all_entities_of(base_events)) :
       payload' = payload_of(base_events, iteration)
  /\ UNCHANGED evars
  /\ UNCHANGED <<table, command, hvars, base_events, vfile, cfile, bvars>>

\* Lines 186-705: the document is written.
VWrite ==
  /\ vpc = "write"
  /\ vpc' = "done"
  /\ vfile' = payload
  /\ UNCHANGED evars
  /\ UNCHANGED <<table, command, hvars, base_events, payload, cfile, bvars>>

\* generate_combined_timeline, line 93: the vertical generator runs once the
\* horizontal one has returned.
CombinedVertical ==
  /\ command = "combined"
  /\ hpc = "done"
  /\ vpc = "idle"
  /\ vpc' = "read"
  /\ UNCHANGED evars
  /\ UNCHANGED <<table, command, hvars, base_events, payload, vfile, cfile, bvars>>

\* generate_combined_timeline, lines 95-100.
CombinedWrite ==
  /\ command = "combined"
  /\ vpc = "done"
  /\ cfile = Unset
  /\ cfile' = <<hfile, vfile>>
  /\ UNCHANGED evars
  /\ UNCHANGED <<table, command, hvars, vvars, bvars>>

\* function render(), lines 592-692, for the selection sel: what it puts on
\* the timeline (with the layout's colEnd, yStart and yEnd) and the marks it
\* leaves on the events.
render_of(data_events, sel, oldmarks) ==
  LET filtered == filtered_events(data_events, sel)
      result == js_layout(filtered, oldmarks)
  IN IF filtered = <<>>
     THEN [shown |-> [placeholder |-> TRUE, positioned |-> <<>>, colEnd |-> <<>>,
                      yStart |-> <<>>, yEnd |-> <<>>],
           marks |-> oldmarks]
     ELSE [shown |-> [placeholder |-> FALSE, positioned |-> result.positioned,
                      colEnd |-> result.colEnd, yStart |-> result.yStart,
                      yEnd |-> result.yEnd],
           marks |-> result.marks]

Render(sel, oldmarks) ==
  /\ shown' = render_of(vfile.events, sel, oldmarks).shown
  /\ marks' = render_of(vfile.events, sel, oldmarks).marks

EntityNames == {vfile.entities[k].name : k \in 1..Len(vfile.entities)}

NoMarks == [slot |-> Undefined, maxSlot |-> Undefined, wrapCol |-> Undefined]

FreshMarks(data_events) ==
  [id \in {data_events[i].id : i \in 1..Len(data_events)} |-> NoMarks]

\* The vertical document is opened, on its own or inside the combined viewer:
\* lines 359-383 and the initial render() of line 695.
Load ==
  /\ page = "closed"
  /\ vpc = "done"
  /\ command = "vertical" \/ cfile # Unset
  /\ page' = "open"
  /\ selected' = EntityNames
  /\ Render(EntityNames, FreshMarks(vfile.events))
  /\ UNCHANGED evars
  /\ UNCHANGED <<table, command, hvars, vvars, cfile>>

\* A variant of Toggle that shows the clicked entity alone.
ToggleAlone(ent) ==
  /\ page = "open"
  /\ ent \in EntityNames
  /\ selected' = IF ent \in selected THEN selected \ {ent} ELSE {ent}
  /\ Render(selected', marks)
  /\ UNCHANGED evars
  /\ UNCHANGED <<table, command, hvars, vvars, cfile, page>>

\* The change handler of an entity checkbox, lines 398-401.
Toggle(ent) ==
  /\ page = "open"
  /\ ent \in EntityNames
  /\ selected' = IF ent \in selected THEN selected \ {ent} ELSE selected \cup {ent}
  /\ Render(selected', marks)
  /\ UNCHANGED evars
  /\ UNCHANGED <<table, command, hvars, vvars, cfile, page>>

\* 'Select all', lines 423-427.
SelectAll ==
  /\ page = "open"
  /\ selected' = EntityNames
  /\ Render(EntityNames, marks)
  /\ UNCHANGED evars
  /\ UNCHANGED <<table, command, hvars, vvars, cfile, page>>

\* 'Select none', lines 428-431.
SelectNone ==
  /\ page = "open"
  /\ selected' = {}
  /\ Render({}, marks)
  /\ UNCHANGED evars
  /\ UNCHANGED <<table, command, hvars, vvars, cfile, page>>

Next ==
  \/ \E c \in {"horizontal", "vertical", "combined"} : Main(c)
  \/ HRead
  \/ HSlots
  \/ HPack
  \/ HLanes
  \/ HWrite
  \/ VRead
  \/ VPayload
  \/ VWrite
  \/ CombinedVertical
  \/ CombinedWrite
  \/ Load
  \/ \E ent \in Entities : Toggle(ent)
  \/ SelectAll
  \/ SelectNone

Spec == Init /\ [][Next]_vars

\* The same program on the longer tables.
LongInit ==
  /\ table \in LongTables
  /\ command = "none"
  /\ hpc = "idle"
  /\ vpc = "idle"
  /\ page = "closed"
  /\ selected = {}
  /\ events = Unset
  /\ entity_events = Unset
  /\ event_at_slot = Unset
  /\ slot_of = Unset
  /\ slot_width = Unset
  /\ x_start = Unset
  /\ range_max_slot = Unset
  /\ event_x = Unset
  /\ event_w = Unset
  /\ layout = Unset
  /\ entity_colors = Unset
  /\ hfile = Unset
  /\ base_events = Unset
  /\ payload = Unset
  /\ vfile = Unset
  /\ cfile = Unset
  /\ marks = Unset
  /\ shown = Unset
  /\ text = <<>>
  /\ html = NotCalled

LongSpec == LongInit /\ [][Next]_vars

\* escapeHtml on its own: the page calls it with a string.
EscapeInit ==
  /\ table = [missing |-> FALSE, rows |-> <<>>]
  /\ command = "none"
  /\ hpc = "idle"
  /\ vpc = "idle"
  /\ page = "closed"
  /\ selected = {}
  /\ events = Unset
  /\ entity_events = Unset
  /\ event_at_slot = Unset
  /\ slot_of = Unset
  /\ slot_width = Unset
  /\ x_start = Unset
  /\ range_max_slot = Unset
  /\ event_x = Unset
  /\ event_w = Unset
  /\ layout = Unset
  /\ entity_colors = Unset
  /\ hfile = Unset
  /\ base_events = Unset
  /\ payload = Unset
  /\ vfile = Unset
  /\ cfile = Unset
  /\ marks = Unset
  /\ shown = Unset
  /\ text \in Texts
  /\ html = NotCalled

Escape ==
  /\ ~html.called
  /\ html' = [called |-> TRUE, out |-> escapeHtml(text)]
  /\ UNCHANGED <<table, command, hvars, vvars, cfile, bvars, text>>

EscapeNext == Escape

EscapeSpec == EscapeInit /\ [][EscapeNext]_vars

\* ------------------------------------------------------------------ claims
EffEnd(e) == IF e.end_dt # None THEN e.end_dt ELSE e.start_dt

TimeOverlap(a, b) == a.start_dt <= EffEnd(b) /\ b.start_dt <= EffEnd(a)

\* C1: in the horizontal layout no two cards of one subrow of an entity lane
\* overlap in time (start(a) <= effectiveEnd(b) and start(b) <= effectiveEnd(a)),
\* for every pair of the subrow and not only for neighbours.
C1_NoOverlapInSubrow ==
  \A ent \in DOMAIN layout : \A i \in 1..Len(layout[ent]) :
    \A p, q \in 1..Len(layout[ent][i]) :
      p # q => ~TimeOverlap(layout[ent][i][p].event, layout[ent][i][q].event)

\* A lane with three cards in one subrow: a pair that placement never compared.
C1_Witness ==
  /\ hpc = "done"
  /\ \E ent \in DOMAIN layout : \E i \in 1..Len(layout[ent]) :
       Len(layout[ent][i]) >= 3

RangeFirstKeyLess(a, b) ==
  \/ a.start_dt < b.start_dt
  \/ /\ a.start_dt = b.start_dt
     /\ \/ is_range(a) /\ ~is_range(b)
        \/ is_range(a) = is_range(b) /\ a.event_id < b.event_id

\* C4: the global slot order of the horizontal layout is the order of the key
\* (start, range before point, id): slot(a) < slot(b) exactly when key(a) <
\* key(b), where an event whose end equals its start is a point.
C4_SlotOrderRangeFirst ==
  \A i, j \in 1..Len(event_at_slot) :
    (slot_of[event_at_slot[i].event_id] < slot_of[event_at_slot[j].event_id])
      <=> RangeFirstKeyLess(event_at_slot[i], event_at_slot[j])

NoTimedRow == \A i \in 1..Len(table.rows) : ~table.rows[i].date

HGeometryUnset ==
  /\ event_at_slot = Unset
  /\ slot_of = Unset
  /\ slot_width = Unset
  /\ x_start = Unset
  /\ range_max_slot = Unset
  /\ event_x = Unset
  /\ event_w = Unset
  /\ layout = Unset
  /\ hfile = Unset

\* C8: when no event has a start, the horizontal generation stops with the
\* empty-result error before any slot, geometry or output document exists,
\* and nothing is written afterwards.
C8_HorizontalEmptyError ==
  /\ (NoTimedRow /\ hpc \notin {"idle", "read", "slots", "config_error"})
       => hpc = "empty_error"
  /\ hpc = "empty_error" => (NoTimedRow /\ HGeometryUnset /\ cfile = Unset)

\* The error raised on a table that has rows, none with a date.
C8_Witness ==
  /\ hpc = "empty_error"
  /\ Len(table.rows) > 0

\* C9: when no event has a start the vertical generation writes no document.
C9_VerticalEmptyError ==
  NoTimedRow => vfile = Unset

\* C10: with a required column missing, every generation stops with the
\* configuration error before a row becomes an event and before any layout
\* step; no event list, geometry or output file exists.
C10_ConfigErrorFirst ==
  table.missing =>
    /\ hpc \in {"idle", "read", "config_error"}
    /\ vpc \in {"idle", "read", "config_error"}
    /\ events = Unset
    /\ entity_events = Unset
    /\ HGeometryUnset
    /\ base_events = Unset
    /\ payload = Unset
    /\ vfile = Unset
    /\ cfile = Unset
    /\ page = "closed"

\* The combined generation has raised the error on a table that has rows.
C10_Witness ==
  /\ table.missing
  /\ Len(table.rows) > 0
  /\ command = "combined"
  /\ hpc = "config_error"

\* The events render() lays out in the current state, and its ranges.
ShownEvents == filtered_events(vfile.events, selected)

ShownRanges == SelectSeq(ShownEvents, IsRangeEv)

Laid == page = "open" /\ ~shown.placeholder

\* The largest number of ranges whose closed intervals share an instant.
MaxOpen(rs) ==
  LET instants == {rs[i].start_ms : i \in 1..Len(rs)} \cup {rs[i].end_ms : i \in 1..Len(rs)}
      open(t) == Cardinality({i \in 1..Len(rs) : rs[i].start_ms <= t /\ t <= rs[i].end_ms})
  IN SetMax({0} \cup {open(t) : t \in instants})

\* C2: the number of wrapper columns the greedy colouring hands out equals the
\* largest number of ranged events whose closed intervals [start, end] contain
\* one common instant.
C2_ColumnsEqualMaxOpen ==
  Laid => Len(shown.colEnd) = MaxOpen(ShownRanges)

\* The box that renders the event id: its range wrapper or its stacked card.
BoxOf(id) ==
  shown.positioned[CHOOSE k \in 1..Len(shown.positioned) :
     \/ shown.positioned[k].kind = "range" /\ shown.positioned[k].ev = id
     \/ /\ shown.positioned[k].kind = "stack"
        /\ \E m \in 1..Len(shown.positioned[k].items) : shown.positioned[k].items[m] = id]

StartsWithin(e_start, r_start, r_end) == r_start <= e_start /\ e_start <= r_end

\* C3 as claimed: the far edge of a range's final extent is at least the far
\* edge of the final extent of every event starting within the range, a
\* widened or lengthened range included, in both layouts.
C3_CoversFinalExtents ==
  /\ \A i, j \in 1..Len(event_at_slot) :
       LET r == event_at_slot[i]
           e == event_at_slot[j]
       IN (event_w # Unset /\ is_range(r) /\ StartsWithin(e.start_dt, r.start_dt, r.end_dt))
            => event_x[r.event_id] + event_w[r.event_id]
                 >= event_x[e.event_id] + event_w[e.event_id]
  /\ Laid =>
       \A i \in 1..Len(ShownRanges) : \A j \in 1..Len(ShownEvents) :
         LET r == ShownRanges[i]
             e == ShownEvents[j]
         IN StartsWithin(e.start_ms, r.start_ms, r.end_ms)
              => BoxOf(r.id).y + BoxOf(r.id).h >= BoxOf(e.id).y + BoxOf(e.id).h

\* C3 (amended): the far edge of a range's final extent is at least the far
\* edge of the slot of every event starting within the range (horizontal: the
\* slot's x plus its estimated width; vertical: the slot's yEnd); for a
\* non-range event that is the event's final far edge.
C3_CoversSlotExtents ==
  /\ \A i, j \in 1..Len(event_at_slot) :
       LET r == event_at_slot[i]
           e == event_at_slot[j]
       IN (event_w # Unset /\ is_range(r) /\ StartsWithin(e.start_dt, r.start_dt, r.end_dt))
            => /\ event_x[r.event_id] + event_w[r.event_id]
                    >= x_start[slot_of[e.event_id]] + slot_width[slot_of[e.event_id]]
               /\ ~is_range(e) =>
                    event_x[r.event_id] + event_w[r.event_id]
                      >= event_x[e.event_id] + event_w[e.event_id]
  /\ Laid =>
       \A i \in 1..Len(ShownRanges) : \A j \in 1..Len(ShownEvents) :
         LET r == ShownRanges[i]
             e == ShownEvents[j]
         IN StartsWithin(e.start_ms, r.start_ms, r.end_ms)
              => /\ BoxOf(r.id).y + BoxOf(r.id).h >= shown.yEnd[marks[e.id].slot]
                 /\ ~e.is_range =>
                      BoxOf(r.id).y + BoxOf(r.id).h >= BoxOf(e.id).y + BoxOf(e.id).h

\* Both layouts show a range that has a later event starting within it.
C3_Witness ==
  /\ hpc = "done"
  /\ Laid
  /\ \E i, j \in 1..Len(event_at_slot) :
       /\ is_range(event_at_slot[i])
       /\ event_at_slot[i].start_dt < event_at_slot[j].start_dt
       /\ event_at_slot[j].start_dt <= event_at_slot[i].end_dt
  /\ \E i \in 1..Len(ShownRanges) : \E j \in 1..Len(ShownEvents) :
       /\ ShownRanges[i].start_ms < ShownEvents[j].start_ms
       /\ ShownEvents[j].start_ms <= ShownRanges[i].end_ms

\* The orders in which n events can be supplied.
Perms(n) == {f \in [1..n -> 1..n] : \A i, j \in 1..n : i # j => f[i] # f[j]}

Permuted(seq, f) == [i \in 1..Len(seq) |-> seq[f[i]]]

\* C5: every order in which the same events (same ids, same values) are
\* supplied yields the same geometry: horizontal slot, x, width and subrows of
\* every lane; vertical slot, span slot, wrapper column, boxes and stack order.
C5_OrderIndependent ==
  /\ hpc = "done" =>
       \A f \in Perms(Len(events)) :
         horizontal_geometry(Permuted(events, f))
           = [slot_of |-> slot_of, event_x |-> event_x, event_w |-> event_w,
              layout |-> layout]
  /\ Laid =>
       \A f \in Perms(Len(vfile.events)) :
         LET again == render_of(Permuted(vfile.events, f), selected,
                                FreshMarks(vfile.events))
         IN /\ again.shown = shown
            /\ \A i \in 1..Len(ShownEvents) :
                 again.marks[ShownEvents[i].id] = marks[ShownEvents[i].id]

\* Both layouts hold two events that only the id tells apart.
C5_Witness ==
  /\ hpc = "done"
  /\ Laid
  /\ \E i, j \in 1..Len(event_at_slot) :
       /\ i # j
       /\ event_at_slot[i].start_dt = event_at_slot[j].start_dt
       /\ event_at_slot[i].end_dt = event_at_slot[j].end_dt
  /\ \E i, j \in 1..Len(ShownEvents) :
       /\ i # j
       /\ ShownEvents[i].start_ms = ShownEvents[j].start_ms
       /\ ShownEvents[i].end_ms = ShownEvents[j].end_ms
       /\ ShownEvents[i].is_range = ShownEvents[j].is_range

\* C6: after any sequence of checkbox toggles, 'Select all' and 'Select none'
\* the timeline shows what render() computes from scratch, on events carrying
\* no marks, for the events with a selected entity.
C6_HistoryIndependent ==
  page = "open" =>
    shown = render_of(vfile.events, selected, FreshMarks(vfile.events)).shown

\* A layout is shown while a hidden event still carries marks of an earlier one.
C6_Witness ==
  /\ Laid
  /\ \E i \in 1..Len(vfile.events) :
       /\ marks[vfile.events[i].id] # NoMarks
       /\ \A j \in 1..Len(ShownEvents) : ShownEvents[j].id # vfile.events[i].id
  /\ \E j \in 1..Len(ShownEvents) : ShownEvents[j].is_range

LaneCardIds(lanes) ==
  UNION {UNION {{lanes[ent][i][p].event.event_id : p \in 1..Len(lanes[ent][i])} :
                  i \in 1..Len(lanes[ent])} : ent \in DOMAIN lanes}

BoxIds(boxes) ==
  UNION {IF boxes[k].kind = "range" THEN {boxes[k].ev} ELSE SeqRange(boxes[k].items) :
           k \in 1..Len(boxes)}

StartlessIds(evs) ==
  {evs[i].event_id : i \in {k \in 1..Len(evs) : evs[k].start_dt = None}}

\* C7: an event without a start gets no slot, no coordinates and no card in
\* the horizontal layout, is absent from the payload, the marks and the boxes of
\* the vertical layout, and the other events are laid out as if it were not in
\* the table.
C7_StartlessExcluded ==
  /\ hpc \in {"write", "done"} =>
       /\ StartlessIds(events) \cap
            (DOMAIN slot_of \cup DOMAIN event_x \cup DOMAIN event_w
               \cup DOMAIN range_max_slot \cup LaneCardIds(layout)) = {}
       /\ LET alone == horizontal_geometry(SelectSeq(events, HasStart))
          IN /\ slot_of = alone.slot_of
             /\ event_x = alone.event_x
             /\ event_w = alone.event_w
             /\ \A ent \in DOMAIN layout :
                  layout[ent] = IF ent \in DOMAIN alone.layout THEN alone.layout[ent]
                                ELSE <<>>
  /\ vfile # Unset =>
       /\ \A i \in 1..Len(vfile.events) :
            vfile.events[i].id \notin {IdStr(n) : n \in StartlessIds(base_events)}
       /\ \E iteration \in set_orders(all_entities_of(base_events)) :
            vfile = payload_of(SelectSeq(base_events, HasStart), iteration)
  /\ page = "open" =>
       /\ DOMAIN marks \cap {IdStr(n) : n \in StartlessIds(base_events)} = {}
       /\ BoxIds(shown.positioned) \cap {IdStr(n) : n \in StartlessIds(base_events)} = {}

\* Both layouts were made of a table with a row without a date before a row
\* with one.
C7_Witness ==
  /\ hpc = "done"
  /\ Laid
  /\ \E i, j \in 1..Len(table.rows) :
       i < j /\ ~table.rows[i].date /\ table.rows[j].date

\* C11: the colour map of the horizontal layout depends on the set of entity
\* names only: the rows taken in any other order, which changes the order in
\* which the names are first met but not the set, give every name the same
\* colour, also when two names differ in letter case only.
C11_ColourOrderIndependent ==
  entity_colors # Unset =>
    \A f \in Perms(Len(table.rows)) :
      entity_colors_of(read_events_from_excel(Permuted(table.rows, f))) = entity_colors

\* C12: every entity has the same colour value in the horizontal document as
\* in the vertical one made of the same table.
C12_SameColourBothLayouts ==
  (cfile # Unset) =>
    \A k \in 1..Len(vfile.entities) :
      entity_colors[vfile.entities[k].name] = vfile.entities[k].color

\* The cards of event id in the lanes: entity, subrow index, x and width.
CardsOf(id) ==
  {[ent |-> ent, subrow |-> i, x |-> layout[ent][i][p].x, width |-> layout[ent][i][p].width] :
     <<ent, i, p>> \in {t \in (DOMAIN layout) \X (1..(2 * MaxRows)) \X (1..MaxRows) :
                          /\ t[2] <= Len(layout[t[1]])
                          /\ t[3] <= Len(layout[t[1]][t[2]])
                          /\ layout[t[1]][t[2]][t[3]].event.event_id = id}}

\* C13: the cards of one event have the same x and the same width in every
\* lane of the horizontal layout, namely the packed x of the event's global
\* slot and the event's final width; only the subrow may differ.
C13_SameCardInEveryLane ==
  hpc \in {"write", "done"} =>
    \A id \in DOMAIN slot_of :
      /\ \A c \in CardsOf(id) :
           /\ c.x = x_start[slot_of[id]]
           /\ c.x = event_x[id]
           /\ c.width = event_w[id]
      /\ \A c, d \in CardsOf(id) : c.x = d.x /\ c.width = d.width
      /\ \A k \in 1..Len(events[id + 1].entities) :
           \E c \in CardsOf(id) : c.ent = events[id + 1].entities[k]

\* An event lies in two lanes, in different subrows.
C13_Witness ==
  /\ hpc = "done"
  /\ \E id \in DOMAIN slot_of : \E c, d \in CardsOf(id) :
       c.ent # d.ent /\ c.subrow # d.subrow

\* The rule of normalize_end_dt for the event made of one row.
Normalised(row, e) ==
  /\ e.end_dt # None => e.end_dt >= e.start_dt
  /\ (row.date /\ row.et # NaN /\ row.et < row.st) => e.end_dt = row.et + DayLen

\* C14: in the events of the horizontal layout and in those of the vertical
\* layout, an end parsed earlier than the start is advanced by one day, so no
\* event has an end earlier than its start.
C14_EndNotBeforeStart ==
  /\ events # Unset =>
       \A i \in 1..Len(events) : Normalised(table.rows[i], events[i])
  /\ base_events # Unset =>
       \A i \in 1..Len(base_events) : Normalised(table.rows[i], base_events[i])

\* The end of the event made of one row is present only with a start and
\* when it differs from the start.
DistinctEnd(row, e) ==
  /\ e.end_dt # None => (e.start_dt # None /\ e.end_dt # e.start_dt)
  /\ (row.date /\ row.et = row.st) => e.end_dt = None

\* C15: every normalised event has an end only if it has a start and the
\* resolved end differs from the start; a row whose end time equals its start
\* time gives an event without end.
C15_EndOnlyIfDistinct ==
  /\ events # Unset =>
       \A i \in 1..Len(events) : DistinctEnd(table.rows[i], events[i])
  /\ base_events # Unset =>
       \A i \in 1..Len(base_events) : DistinctEnd(table.rows[i], base_events[i])

\* C16: a layout leaves the event records it is given as they were: the
\* horizontal layout's events are those that were read, and the vertical
\* layout function adds no field to an event object.
C16_EventsNotModified ==
  /\ hpc \in {"pack", "lanes", "write", "done"} =>
       events = read_events_from_excel(table.rows)
  /\ page = "open" => \A id \in DOMAIN marks : marks[id] = NoMarks

\* The text estimate of a card: clamp(140 + 5 * len(text), 180, 320).
TextEstimate(e) == Max(180, Min(140 + 5 * card_text_len(e), 320))

\* The slots of the events whose start lies in [start, end] of the range r.
SlotsWithin(r) ==
  {slot_of[event_at_slot[k].event_id] :
     k \in {j \in 1..Len(event_at_slot) :
              StartsWithin(event_at_slot[j].start_dt, r.start_dt, r.end_dt)}}

\* C18: in the horizontal layout the final width of a non-range event is its
\* text estimate clamp(140 + 5 * len(text), 180, 320); that of a range is the
\* larger of its estimate and rightEdge(spanSlot) - x(own slot), with spanSlot
\* the largest slot of an event starting in [start, end] and rightEdge(s) =
\* x(s) + estimate(s); a range is never narrower than its estimate.
C18_FinalWidths ==
  hpc \in {"lanes", "write", "done"} =>
    \A k \in 1..Len(event_at_slot) :
      LET e == event_at_slot[k]
          own == slot_of[e.event_id]
      IN IF ~is_range(e)
         THEN event_w[e.event_id] = TextEstimate(e)
         ELSE /\ SlotsWithin(e) # {}
              /\ LET spanSlot == SetMax(SlotsWithin(e))
                     rightEdge == x_start[spanSlot] + TextEstimate(event_at_slot[spanSlot + 1])
                 IN /\ spanSlot = range_max_slot[e.event_id]
                    /\ event_w[e.event_id] = Max(TextEstimate(e), rightEdge - x_start[own])
              /\ event_w[e.event_id] >= TextEstimate(e)

\* The layout holds a point event whose text estimate is cut at 320 and a range
\* wider than its estimate.
C18_Witness ==
  /\ hpc = "done"
  /\ \E k \in 1..Len(event_at_slot) :
       ~is_range(event_at_slot[k]) /\ 140 + 5 * card_text_len(event_at_slot[k]) > 320
  /\ \E k \in 1..Len(event_at_slot) :
       /\ is_range(event_at_slot[k])
       /\ event_w[event_at_slot[k].event_id] > TextEstimate(event_at_slot[k])

\* The distinct start instants of the filtered events and the dense rank of one
\* of them.
ShownStarts == {ShownEvents[i].start_ms : i \in 1..Len(ShownEvents)}

DenseRank(t) == Cardinality({u \in ShownStarts : u < t})

\* The ids of the filtered non-range events that start at t.
PointIds(t) ==
  {ShownEvents[i].id : i \in {k \in 1..Len(ShownEvents) :
                                 ~ShownEvents[k].is_range /\ ShownEvents[k].start_ms = t}}

StackBlocks(t) ==
  {k \in 1..Len(shown.positioned) :
     shown.positioned[k].kind = "stack" /\ shown.positioned[k].start_ms = t}

BlockHeight(n) == Max(98, 34 + 20 + n * 76 + (n - 1) * 10)

\* C17: for every start instant t of the filtered events with n >= 1 non-range
\* events there is exactly one stacked block, holding exactly those n events,
\* of height max(98, 34 + 20 + 76 n + 10 (n - 1)); an instant without
\* non-range event has no block; the row height of a slot is that block height
\* or, without point events, 98.
C17_StackBlocks ==
  Laid =>
    \A t \in ShownStarts :
      LET n == Cardinality(PointIds(t))
          rowHeight == shown.yEnd[DenseRank(t)] - shown.yStart[DenseRank(t)]
      IN IF n >= 1
         THEN /\ Cardinality(StackBlocks(t)) = 1
              /\ \A k \in StackBlocks(t) :
                   /\ Len(shown.positioned[k].items) = n
                   /\ SeqRange(shown.positioned[k].items) = PointIds(t)
                   /\ shown.positioned[k].h = BlockHeight(n)
              /\ rowHeight = BlockHeight(n)
         ELSE /\ StackBlocks(t) = {}
              /\ rowHeight = 98

\* A block of two or more point events is shown, and a slot that has a range
\* only.
C17_Witness ==
  /\ Laid
  /\ \E t \in ShownStarts : Cardinality(PointIds(t)) >= 2
  /\ \E t \in ShownStarts : PointIds(t) = {}

\* C19: the slot of every filtered event is the dense rank of its start among
\* the distinct starts of the filtered set: equal slots iff equal starts, the
\* slots are exactly 0..k-1 for k distinct starts, ascending with the start.
C19_SlotIsDenseRank ==
  Laid =>
    /\ \A i \in 1..Len(ShownEvents) :
         marks[ShownEvents[i].id].slot = DenseRank(ShownEvents[i].start_ms)
    /\ \A i, j \in 1..Len(ShownEvents) :
         /\ (marks[ShownEvents[i].id].slot = marks[ShownEvents[j].id].slot)
              <=> (ShownEvents[i].start_ms = ShownEvents[j].start_ms)
         /\ (marks[ShownEvents[i].id].slot < marks[ShownEvents[j].id].slot)
              <=> (ShownEvents[i].start_ms < ShownEvents[j].start_ms)
    /\ {marks[ShownEvents[i].id].slot : i \in 1..Len(ShownEvents)}
         = 0..(Cardinality(ShownStarts) - 1)
    /\ DOMAIN shown.yStart = 0..(Cardinality(ShownStarts) - 1)

\* Two shown events share a start, and an event with an earlier start than a
\* shown one is filtered out.
C19_Witness ==
  /\ Laid
  /\ Len(ShownEvents) > Cardinality(ShownStarts)
  /\ \E i \in 1..Len(vfile.events) : \E t \in ShownStarts :
       /\ vfile.events[i].start_ms < t
       /\ vfile.events[i].start_ms \notin ShownStarts

\* The slots whose instant lies in [start, end] of the range r.
VSlotsWithin(r) ==
  {DenseRank(t) : t \in {u \in ShownStarts : StartsWithin(u, r.start_ms, r.end_ms)}}

\* C20: every shown range r lies at y = yStart[slot(r)] with height
\* max(98, yEnd[spanSlot(r)] - yStart[slot(r)]), spanSlot(r) being the largest
\* slot whose instant lies in [start(r), end(r)], at least slot(r); its x is
\* wrapper column * (240 + 20); so it contains the extent of every slot whose
\* instant lies in its interval.
C20_RangeGeometry ==
  Laid =>
    \A i \in 1..Len(ShownRanges) :
      LET r == ShownRanges[i]
          box == BoxOf(r.id)
          own == DenseRank(r.start_ms)
      IN /\ box.kind = "range"
         /\ box.y = shown.yStart[own]
         /\ VSlotsWithin(r) # {}
         /\ LET spanSlot == SetMax(VSlotsWithin(r))
            IN /\ spanSlot >= own
               /\ spanSlot = marks[r.id].maxSlot
               /\ box.h = Max(98, shown.yEnd[spanSlot] - shown.yStart[own])
         /\ box.x = marks[r.id].wrapCol * (240 + 20)
         /\ \A s \in VSlotsWithin(r) :
              box.y <= shown.yStart[s] /\ shown.yEnd[s] <= box.y + box.h

\* C21: x of slot 0 is 0 and x(i) = x(i-1) + estimate(i-1) + 24, with the
\* un-widened text estimate of each slot; x grows strictly with the slot and the
\* estimate extents of two slots are at least 24 apart.
C21_XPacking ==
  hpc \in {"lanes", "write", "done"} =>
    LET n == Len(event_at_slot)
        est(i) == TextEstimate(event_at_slot[i + 1])
    IN /\ DOMAIN x_start = 0..(n - 1)
       /\ x_start[0] = 0
       /\ \A i \in 1..(n - 1) : x_start[i] = x_start[i - 1] + est(i - 1) + 24
       /\ \A i, j \in 0..(n - 1) :
            i < j => /\ x_start[i] < x_start[j]
                     /\ x_start[i] + est(i) + 24 <= x_start[j]

\* Three slots, the first of them a widened range.
C21_Witness ==
  /\ hpc = "done"
  /\ Len(event_at_slot) >= 3
  /\ event_w[event_at_slot[1].event_id] > TextEstimate(event_at_slot[1])

\* The row height of slot i after C17.
RowHeight(i) ==
  LET t == CHOOSE u \in ShownStarts : DenseRank(u) = i
  IN IF PointIds(t) = {} THEN 98 ELSE BlockHeight(Cardinality(PointIds(t)))

\* C22: yStart[0] = 0, yStart[i] = yStart[i-1] + height[i-1] + 12 and
\* yEnd[i] = yStart[i] + height[i]; the extents of different slots are disjoint
\* and ordered by slot.
C22_YPacking ==
  Laid =>
    LET n == Cardinality(ShownStarts)
    IN /\ DOMAIN shown.yStart = 0..(n - 1)
       /\ DOMAIN shown.yEnd = 0..(n - 1)
       /\ shown.yStart[0] = 0
       /\ \A i \in 1..(n - 1) :
            shown.yStart[i] = shown.yStart[i - 1] + RowHeight(i - 1) + 12
       /\ \A i \in 0..(n - 1) : shown.yEnd[i] = shown.yStart[i] + RowHeight(i)
       /\ \A i, j \in 0..(n - 1) : i < j => shown.yEnd[i] < shown.yStart[j]

\* Three rows are shown, of different heights.
C22_Witness ==
  /\ Laid
  /\ Cardinality(ShownStarts) >= 3
  /\ \E i, j \in 0..(Cardinality(ShownStarts) - 1) : RowHeight(i) # RowHeight(j)

\* The cards of event id in the lane of ent: subrow and position.
LaneCards(ent, id) ==
  {t \in (1..Len(layout[ent])) \X (1..MaxRows) :
     /\ t[2] <= Len(layout[ent][t[1]])
     /\ layout[ent][t[1]][t[2]].event.event_id = id}

\* C27: a timed event has at most one card in each entity lane of the
\* horizontal layout, also when the row names the entity more than once.
C27_OneCardPerLane ==
  hpc \in {"write", "done"} =>
    \A ent \in DOMAIN layout : \A id \in DOMAIN slot_of :
      Cardinality(LaneCards(ent, id)) <= 1

\* The order (start, range before point, id).
StackOrderLess(a, b) ==
  \/ a.start_dt < b.start_dt
  \/ /\ a.start_dt = b.start_dt
     /\ \/ is_range(a) /\ ~is_range(b)
        \/ is_range(a) = is_range(b) /\ a.event_id < b.event_id

\* First fit: the event goes to the lowest subrow whose last-placed event does
\* not overlap it, or to a new subrow after the existing ones.
RECURSIVE FirstFit(_, _)
FirstFit(rows, evs) ==
  IF evs = <<>> THEN rows
  ELSE LET e == Head(evs)
           fits == {i \in 1..Len(rows) : ~TimeOverlap(rows[i][Len(rows[i])], e)}
       IN FirstFit(IF fits = {} THEN Append(rows, <<e>>)
                   ELSE [rows EXCEPT ![SetMin(fits)] = Append(@, e)],
                   Tail(evs))

\* C23: the subrows of every entity lane are those of first fit over the
\* entity's timed events taken in (start, range before point, id) order: each
\* event in the lowest existing subrow whose last-placed event does not overlap
\* it, a new subrow only when every existing one overlaps; no subrow is empty.
C23_FirstFit ==
  hpc \in {"write", "done"} =>
    \A ent \in DOMAIN layout :
      LET fit == FirstFit(<<>>, Sorted(SelectSeq(entity_events[ent], HasStart),
                                       StackOrderLess))
      IN /\ Len(layout[ent]) = Len(fit)
         /\ \A i \in 1..Len(fit) :
              /\ Len(layout[ent][i]) = Len(fit[i])
              /\ Len(fit[i]) > 0
              /\ \A p \in 1..Len(fit[i]) :
                   layout[ent][i][p].event.event_id = fit[i][p].event_id

\* An event was placed while two subrows could take it.
C23_Witness ==
  /\ hpc = "done"
  /\ \E ent \in DOMAIN layout :
       /\ Len(layout[ent]) >= 2
       /\ Len(layout[ent][1]) >= 2
       /\ layout[ent][1][2].event.start_dt
            > EffEnd(layout[ent][2][Len(layout[ent][2])].event)

\* C24: two cards of one subrow do not overlap on the x axis: the one with the
\* smaller x ends, with its final width, at or before the x of the other.
C24_NoGeometricOverlap ==
  hpc \in {"write", "done"} =>
    \A ent \in DOMAIN layout : \A i \in 1..Len(layout[ent]) :
      \A p, q \in 1..Len(layout[ent][i]) :
        /\ p # q => layout[ent][i][p].x # layout[ent][i][q].x
        /\ layout[ent][i][p].x < layout[ent][i][q].x =>
             layout[ent][i][p].x + layout[ent][i][p].width <= layout[ent][i][q].x

\* A widened range is followed by another card in its subrow.
C24_Witness ==
  /\ hpc = "done"
  /\ \E ent \in DOMAIN layout : \E i \in 1..Len(layout[ent]) :
       /\ Len(layout[ent][i]) >= 2
       /\ layout[ent][i][1].width > TextEstimate(layout[ent][i][1].event)

\* The timed events of one entity, each once, and the largest number of them
\* whose closed intervals [start, effective end] share an instant.
TimedOf(ent) ==
  {events[i] : i \in {k \in 1..Len(events) :
                        events[k].start_dt # None /\ ent \in SeqRange(events[k].entities)}}

MaxTogether(S) ==
  SetMax({0} \cup {Cardinality({e \in S : e.start_dt <= d.start_dt /\ d.start_dt <= EffEnd(e)}) :
                     d \in S})

\* C25: every entity lane has as many subrows as the largest number of the
\* entity's timed events whose closed intervals contain one common instant.
C25_MinimumSubrows ==
  hpc \in {"write", "done"} =>
    \A ent \in DOMAIN layout : Len(layout[ent]) = MaxTogether(TimedOf(ent))

\* The integer a decimal id string stands for.
RECURSIVE IdNum(_)
IdNum(digits) ==
  IF digits = <<>> THEN 0 ELSE 10 * IdNum(SubSeq(digits, 1, Len(digits) - 1)) + digits[Len(digits)]

\* C28: inside a stacked block, and among the ranges with one start, the
\* events are in ascending order of their integer id, for ids of 10 and above
\* too.
C28_TieBreakByIntegerId ==
  Laid =>
    /\ \A k \in 1..Len(shown.positioned) :
         \A p, q \in 1..Len(shown.positioned[k].items) :
           p < q => IdNum(shown.positioned[k].items[p]) < IdNum(shown.positioned[k].items[q])
    /\ \A k, l \in 1..Len(shown.positioned) :
         (/\ k < l
          /\ shown.positioned[k].kind = "range"
          /\ shown.positioned[l].kind = "range"
          /\ shown.positioned[k].start_ms = shown.positioned[l].start_ms)
           => IdNum(shown.positioned[k].ev) < IdNum(shown.positioned[l].ev)

\* C26: two distinct ranges of one wrapper column have disjoint rendered
\* vertical extents [y, y + height], also for the events of the vertical
\* generator's own row parsing, which keeps an end earlier than the start.
C26_NoOverlapInWrapperColumn ==
  Laid =>
    \A i, j \in 1..Len(ShownRanges) :
      LET r == ShownRanges[i]
          q == ShownRanges[j]
      IN (i # j /\ marks[r.id].wrapCol = marks[q.id].wrapCol) =>
           \/ BoxOf(r.id).y + BoxOf(r.id).h < BoxOf(q.id).y
           \/ BoxOf(q.id).y + BoxOf(q.id).h < BoxOf(r.id).y

\* What the page shows for the current selection: the placeholder alone when
\* no event has a selected entity, else exactly the events that have one.
ShowsSelection ==
  /\ selected \subseteq EntityNames
  /\ shown.placeholder <=> ShownEvents = <<>>
  /\ shown.placeholder => shown.positioned = <<>>
  /\ BoxIds(shown.positioned) = {ShownEvents[i].id : i \in 1..Len(ShownEvents)}

\* C29: when the page opens every entity is selected; from then on the selected
\* set is a subset of the known entities, a toggle changes the membership of
\* its entity only, 'Select all' selects all and 'Select none' none, an event
\* is shown iff one of its entities is selected, and when no event qualifies
\* only the placeholder is shown and the layout function is not called (the
\* events keep their marks).
C29_FilterState ==
  /\ [](page = "open" => ShowsSelection)
  /\ [][/\ (page = "closed" /\ page' = "open") => selected' = EntityNames'
        /\ \A ent \in Entities :
             Toggle(ent) => /\ selected' \ {ent} = selected \ {ent}
                            /\ (ent \in selected') <=> (ent \notin selected)
        /\ SelectAll => selected' = EntityNames
        /\ SelectNone => selected' = {}
        /\ (page = "open" /\ filtered_events(vfile.events, selected') = <<>>) =>
             marks' = marks]_vars

\* Part of the entities is selected and part of the events is shown.
C29_Witness ==
  /\ Laid
  /\ selected # {}
  /\ selected # EntityNames
  /\ Len(ShownEvents) < Len(vfile.events)

\* C30: the result of escapeHtml holds no raw '<', '>', '"' or '&': every
\* one of these characters of the input is replaced by its entity, adjacent
\* ones too.
C30_NoRawSpecials ==
  html.called => \A k \in 1..Len(html.out) : html.out[k] \notin Specials

====
